---- MODULE Spec2Model ----
(***************************************************************************)
(* TrendRadar: the analysis-and-notification pipeline of NewsAnalyzer      *)
(* (src/trendradar/__main__.py) over the StorageManager                    *)
(* (src/trendradar/storage/manager.py).                                    *)
(*                                                                         *)
(* One process invocation is one run: crawl -> save -> detect new titles   *)
(* -> statistics -> real-time notification -> summary -> cleanup.  Runs    *)
(* follow one another on a clock of days and times of day; the day-buckets *)
(* of the storage backend and the push records outlive the runs.           *)
(***************************************************************************)
EXTENDS Integers, Sequences, FiniteSets, TLC

\* ------------------------------------------------------------------ bounds
MaxRuns == 2        \* process invocations in a behaviour
MaxDay == 2         \* calendar days 1..MaxDay
MaxTime == 2        \* times of day 0..MaxTime
MaxCount == 2       \* largest stat count fed to the content gate on its own

Days == 1..MaxDay
Times == 0..MaxTime

\* ------------------------------------------------------------ the universe
Platforms == {"P1"}
Titles == {"X", "Y"}
Channels == {"feishu", "slack"}

\* REPORT_MODE values: the three modes and one value that is none of them
Modes == {"incremental", "current", "daily", "weekly"}

\* (START, END) of PUSH_WINDOW.TIME_RANGE: a one-point window and a window
\* whose end is earlier than its start
Windows == {<<1, 1>>, <<1, 0>>}

\* a mapping platform id -> set of titles, over some of the platforms
TitleMaps == UNION {[S -> SUBSET Titles] : S \in SUBSET Platforms}

\* the frequency-word groups: title "X" contains the keyword of group "G",
\* no title contains the keyword of group "H"
WordGroups == << [name |-> "G", required |-> {"X"}],
                 [name |-> "H", required |-> {"Z"}] >>

VARIABLES
    cfg,             \* the loaded configuration (fixed for the behaviour)
    today, now,      \* the clock: calendar day and time of day
    store,           \* today's day-bucket [prior, latest] of the backend
    pushRecord,      \* day -> report types recorded as pushed
    pc,              \* position of the run
    kind,            \* which notification _send_notification_if_needed is at
    results,         \* this crawl's results
    saved,           \* save_news_data returned True in this run
    newTitles,       \* the new_titles mapping in use
    stats,           \* the stats list in use
    summaryHtml,     \* summary_html was written
    loadFailed,      \* _load_analysis_data returned None in this run
    valid,           \* last result of _has_valid_content
    gate,            \* outcome of the last push gate of this run
    dispatchResults, \* the map returned by the last dispatch_all
    raised,          \* an exception is propagating out of run()
    exitStatus,      \* exit status of the process, once it has ended
    runs,            \* runs started
    rtSent, sumSent, \* dispatches of this run, by notification
    recorded,        \* record_push calls of this run
    cleanups,        \* ctx.cleanup() calls of this run
    honoured,        \* today's dispatches with a successful channel
    sm,              \* a StorageManager: constructor arguments, the
                     \* environment it reads, _backend and _remote_backend
    smLog,           \* what the manager's operations did and returned
    backendData,     \* backend -> the day's data that backend holds
    call,            \* a function call on its own: the arguments
    ret,             \* a function call on its own: what it returned
    crawled          \* platform -> titles the earlier crawls of the day had

vars == << cfg, today, now, store, pushRecord, pc, kind, results, saved,
           newTitles, stats, summaryHtml, loadFailed, valid, gate,
           dispatchResults, raised, exitStatus, runs, rtSent, sumSent,
           recorded, cleanups, honoured, sm, smLog, backendData, call,
           ret, crawled >>

\* what no step of a run changes: the configuration, the fields of the
\* storage manager (the pipeline's storage is store and pushRecord), and
\* what belongs to the functions looked at on their own
confVars == << cfg, sm, smLog, backendData, call, ret, crawled >>
clockVars == << today, now >>
storeVars == << store, pushRecord >>
countVars == << honoured >>

\* ------------------------------------------------------------ mode strategy
\* a bug: the daily strategy also sends real-time notifications
MODE_STRATEGIES_DailyRealtime ==
    [m \in {"incremental", "current", "daily"} |->
        [realtime_report_type |->
            IF m = "current" THEN "Real-time Current Rankings"
            ELSE "Real-time Incremental",
         summary_report_type |->
            IF m = "current" THEN "Current Rankings Summary"
            ELSE "Daily Summary",
         should_send_realtime |-> TRUE,
         should_generate_summary |-> TRUE,
         summary_mode |-> IF m = "current" THEN "current" ELSE "daily"]]

\* NewsAnalyzer.MODE_STRATEGIES
MODE_STRATEGIES ==
    [m \in {"incremental", "current", "daily"} |->
        CASE m = "incremental" ->
                [realtime_report_type |-> "Real-time Incremental",
                 summary_report_type |-> "Daily Summary",
                 should_send_realtime |-> TRUE,
                 should_generate_summary |-> TRUE,
                 summary_mode |-> "daily"]
          [] m = "current" ->
                [realtime_report_type |-> "Real-time Current Rankings",
                 summary_report_type |-> "Current Rankings Summary",
                 should_send_realtime |-> TRUE,
                 should_generate_summary |-> TRUE,
                 summary_mode |-> "current"]
          [] m = "daily" ->
                [realtime_report_type |-> "",
                 summary_report_type |-> "Daily Summary",
                 should_send_realtime |-> FALSE,
                 should_generate_summary |-> TRUE,
                 summary_mode |-> "daily"]]

\* a bug: the strategy of an unknown mode is the incremental one
GetModeStrategy_FallbackIncremental(report_mode) ==
    IF report_mode \in DOMAIN MODE_STRATEGIES
    THEN MODE_STRATEGIES[report_mode]
    ELSE MODE_STRATEGIES["incremental"]

\* NewsAnalyzer._get_mode_strategy
GetModeStrategy(report_mode) ==
    IF report_mode \in DOMAIN MODE_STRATEGIES
    THEN MODE_STRATEGIES[report_mode]
    ELSE MODE_STRATEGIES["daily"]

\* -------------------------------------------------------------- content gate
\* bool(new_titles and any(len(titles) > 0 for titles in new_titles.values()))
HasNewTitles(new_titles) ==
    /\ DOMAIN new_titles # {}
    /\ \E p \in DOMAIN new_titles : Cardinality(new_titles[p]) > 0

\* any(stat["count"] > 0 for stat in stats)
HasMatchedNews(stat_list) ==
    \E i \in 1..Len(stat_list) : stat_list[i].count > 0

\* a bug: incremental mode accepts either condition instead of both
HasValidContent_AnyOf(report_mode, stat_list, new_titles) ==
    IF report_mode = "current"
    THEN HasMatchedNews(stat_list)
    ELSE HasMatchedNews(stat_list) \/ HasNewTitles(new_titles)

\* a bug: incremental mode forgets the new-titles condition
HasValidContent_NoNewCheck(report_mode, stat_list, new_titles) ==
    IF report_mode \in {"incremental", "current"}
    THEN HasMatchedNews(stat_list)
    ELSE HasMatchedNews(stat_list) \/ HasNewTitles(new_titles)

\* a bug: daily mode asks for both conditions instead of either
HasValidContent_DailyBoth(report_mode, stat_list, new_titles) ==
    IF report_mode = "current"
    THEN HasMatchedNews(stat_list)
    ELSE HasMatchedNews(stat_list) /\ HasNewTitles(new_titles)

\* NewsAnalyzer._has_valid_content
HasValidContent(report_mode, stat_list, new_titles) ==
    IF report_mode = "incremental"
    THEN HasNewTitles(new_titles) /\ HasMatchedNews(stat_list)
    ELSE IF report_mode = "current"
    THEN HasMatchedNews(stat_list)
    ELSE HasMatchedNews(stat_list) \/ HasNewTitles(new_titles)

\* ----------------------------------------------------------------- storage
EmptyBucket == [prior |-> [p \in Platforms |-> {}],
                latest |-> [p \in {} |-> {}]]

LatestOf(bucket, p) ==
    IF p \in DOMAIN bucket.latest THEN bucket.latest[p] ELSE {}

\* the accumulated Title History of a day-bucket, per platform
AllTitles(bucket, p) == bucket.prior[p] \cup LatestOf(bucket, p)

\* StorageManager.save_news_data on a successful save: the crawl becomes
\* the latest one, what was stored before it becomes prior history
SaveNewsData(bucket, data) ==
    [prior |-> [p \in Platforms |-> AllTitles(bucket, p)],
     latest |-> data]

\* ctx.read_today_titles: the accumulated titles of the day by platform
ReadTodayTitles(bucket) ==
    [p \in {q \in Platforms : AllTitles(bucket, q) # {}} |->
        AllTitles(bucket, p)]

\* ctx.detect_new_titles / StorageManager.detect_new_titles: the titles of
\* the latest stored crawl that no earlier crawl of the day had
DetectNewTitles(bucket) ==
    [p \in DOMAIN bucket.latest |-> bucket.latest[p] \ bucket.prior[p]]

\* StorageManager.has_pushed_today
HasPushedToday(record, day) == record[day] # {}

\* StorageManager.record_push
RecordPush(record, day, report_type) ==
    [record EXCEPT ![day] = @ \cup {report_type}]

\* -------------------------------------------------------- frequency engine
TitleMatches(title, group) == title \in group.required

\* ctx.count_frequency: one stat per keyword group, in declaration order,
\* counting the (platform, title) pairs of the data source that match it
CountFrequency(data_source) ==
    [i \in 1..Len(WordGroups) |->
        [word |-> WordGroups[i].name,
         count |-> Cardinality({pt \in (DOMAIN data_source) \X Titles :
                        /\ pt[2] \in data_source[pt[1]]
                        /\ TitleMatches(pt[2], WordGroups[i])})]]

\* ---------------------------------------------------------------- push gate
\* push_manager.is_in_time_range: inclusive, same-day window
IsInTimeRange(t, start, end) == start <= t /\ t <= end

\* a bug: the push window control forgets the once-per-day check
PushGate_NoOnceCheck(push_window, t, pushed_today) ==
    IF push_window.enabled
       /\ ~IsInTimeRange(t, push_window.start, push_window.end)
    THEN "outside_window"
    ELSE "admit"

\* a bug: the push window control forgets the time range
PushGate_NoWindowCheck(push_window, t, pushed_today) ==
    IF push_window.enabled /\ push_window.once_per_day /\ pushed_today
    THEN "already_pushed"
    ELSE "admit"

\* _send_notification_if_needed, the push window control
PushGate(push_window, t, pushed_today) ==
    IF push_window.enabled
    THEN IF ~IsInTimeRange(t, push_window.start, push_window.end)
         THEN "outside_window"
         ELSE IF push_window.once_per_day /\ pushed_today
         THEN "already_pushed"
         ELSE "admit"
    ELSE "admit"

\* any(results.values())
AnySuccess(res) == \E c \in DOMAIN res : res[c]

\* a bug: all(results.values()) instead of any(results.values())
ShouldRecordPush_AllChannels(push_window, res) ==
    /\ push_window.enabled
    /\ push_window.once_per_day
    /\ \A c \in DOMAIN res : res[c]

\* a bug: the push is recorded whatever the channels reported
ShouldRecordPush_Always(push_window, res) ==
    push_window.enabled /\ push_window.once_per_day

\* _send_notification_if_needed, the condition of record_push
ShouldRecordPush(push_window, res) ==
    push_window.enabled /\ push_window.once_per_day /\ AnySuccess(res)

\* a bug: a real-time call that returns ends the mode strategy
AfterSend_SkipSummary(k) == "cleanup"

\* a bug: the summary stage always takes _generate_summary_report
SummaryNotifies_Always(strategy) == TRUE

\* where a run goes on after _send_notification_if_needed returns: the
\* real-time call is followed by the summary stage, the summary call (in
\* _generate_summary_report) by the end of _execute_mode_strategy
AfterSend(k) == IF k = "realtime" THEN "summary" ELSE "cleanup"

\* _execute_mode_strategy, the choice between _generate_summary_html
\* (HTML only) and _generate_summary_report (HTML and notification)
SummaryNotifies(strategy) == ~strategy.should_send_realtime

\* ------------------------------------------------------------------- inputs
\* the PUSH_WINDOW section; the time range of a disabled window is never
\* read, so one range stands for all of them there
PushWindows ==
    {pw \in [enabled : BOOLEAN, once_per_day : BOOLEAN,
             start : Times, end : Times] :
        /\ << pw.start, pw.end >> \in Windows
        /\ ~pw.enabled => << pw.start, pw.end >> = << 1, 1 >>}

\* the configurations a run is started with.  PUSH_WINDOW is read only
\* behind ENABLE_NOTIFICATION and a configured channel, so where one of
\* these is off a single (enabled, once-per-day) window stands for all
Configs ==
    {c \in [REPORT_MODE : Modes,
            ENABLE_CRAWLER : {TRUE},
            ENABLE_NOTIFICATION : BOOLEAN,
            HAS_NOTIFICATION : BOOLEAN,
            HTML : BOOLEAN,
            PUSH_WINDOW : PushWindows] :
        ~(c.ENABLE_NOTIFICATION /\ c.HAS_NOTIFICATION) =>
            c.PUSH_WINDOW = [enabled |-> TRUE, once_per_day |-> TRUE,
                             start |-> 1, end |-> 1]}

\* the same configurations with the crawler disabled
CrawlerOffConfigs == {[c EXCEPT !.ENABLE_CRAWLER = FALSE] : c \in Configs}

\* what dispatch_all may return: a success flag for each channel it sent to
DispatchOutcomes == UNION {[S -> BOOLEAN] : S \in SUBSET Channels}

NoTitles == [p \in {} |-> {}]
NoResults == [c \in {} |-> FALSE]

\* ---------------------------------------------------------- storage manager
MaxDeleted == 1     \* largest count one backend call reports

BackendTypes == {"auto", "local", "remote"}

\* the four remote credentials, by their key in remote_config; each has an
\* environment variable of its own (S3_BUCKET_NAME, S3_ACCESS_KEY_ID,
\* S3_SECRET_ACCESS_KEY, S3_ENDPOINT_URL)
CredKeys == {"bucket_name", "access_key_id", "secret_access_key",
             "endpoint_url"}

\* a value python takes for false: a missing key, None or the empty string
NoValue == ""

\* StorageManager.__init__, with the environment variables the manager
\* reads kept beside its fields; no backend exists yet
NewManager(backend_type, remote_config, local_retention_days, remote_retention_days, pull_enabled, pull_days, github_actions, environ) ==
    [backend_type |-> backend_type,
     remote_config |-> remote_config,
     local_retention_days |-> local_retention_days,
     remote_retention_days |-> remote_retention_days,
     pull_enabled |-> pull_enabled,
     pull_days |-> pull_days,
     github_actions |-> github_actions,
     environ |-> environ,
     backend |-> "none",
     remote_backend |-> "none"]

\* nothing has been called on the manager yet
EmptyLog ==
    [op |-> "none",        \* the last operation
     ret |-> 0,            \* what it returned, where it returns a count
     calls |-> << >>,      \* the backend calls it made, in order
     built |-> << >>,      \* the backend constructors it ran, in order
     delegate |-> "none",  \* the backend a delegated operation went to
     resolved |-> "none",  \* the last result of _resolve_backend_type
     fellBack |-> FALSE,   \* get_backend fell back from remote to local
     nLocal |-> 0,         \* LocalStorageBackend objects constructed
     nRemote |-> 0]        \* RemoteStorageBackend objects constructed

\* StorageManager.is_github_actions
IsGithubActions(m) == m.github_actions = "true"

\* remote_config.get(key) or os.environ.get(VARIABLE)
Credential(m, key) ==
    IF m.remote_config[key] # NoValue
    THEN m.remote_config[key] ELSE m.environ[key]

\* a bug: only the configuration file is consulted for the credentials
HasRemoteConfig_ConfigOnly(m) ==
    \A key \in CredKeys : m.remote_config[key] # NoValue

\* StorageManager._has_remote_config
HasRemoteConfig(m) == \A key \in CredKeys : Credential(m, key) # NoValue

\* StorageManager._resolve_backend_type
ResolveBackendType(m) ==
    IF m.backend_type = "auto"
    THEN IF IsGithubActions(m)
         THEN IF HasRemoteConfig(m) THEN "remote" ELSE "local"
         ELSE "local"
    ELSE m.backend_type

\* StorageManager._create_remote_backend: None when the import or the
\* constructor raises
CreateRemoteBackend(create_ok) == IF create_ok THEN "remote" ELSE "none"

\* the per-operation part of the log is cleared when an operation starts
StartOp(lg, name) ==
    [lg EXCEPT !.op = name, !.ret = 0, !.calls = << >>, !.built = << >>,
               !.delegate = "none"]

\* a bug: no fallback, the failed remote backend is kept as it is
GetBackend_NoFallback(m, lg, create_ok) ==
    IF m.backend # "none"
    THEN [sm |-> m, log |-> lg]
    ELSE LET resolved == ResolveBackendType(m)
             made == IF resolved = "remote"
                     THEN CreateRemoteBackend(create_ok) ELSE "none"
         IN [sm |-> [m EXCEPT !.backend =
                        IF resolved = "local" THEN "local" ELSE made],
             log |-> [lg EXCEPT
                        !.resolved = resolved,
                        !.built = @ \o (IF resolved = "remote"
                                        THEN << made >> ELSE << "local" >>),
                        !.nLocal = IF resolved = "local" THEN @ + 1 ELSE @,
                        !.nRemote = IF made = "remote" THEN @ + 1 ELSE @]]

\* a bug: the backend is resolved and made anew at every call
GetBackend_NotMemoized(m, lg, create_ok) ==
    LET resolved == ResolveBackendType(m)
        made == IF resolved = "remote"
                THEN CreateRemoteBackend(create_ok) ELSE "none"
        use_local == resolved = "local" \/ made = "none"
    IN [sm |-> [m EXCEPT !.backend = IF use_local THEN "local" ELSE made],
        log |-> lg]

\* StorageManager.get_backend: the manager and the log after the call
GetBackend(m, lg, create_ok) ==
    IF m.backend # "none"
    THEN [sm |-> m, log |-> lg]
    ELSE LET resolved == ResolveBackendType(m)
             made == IF resolved = "remote"
                     THEN CreateRemoteBackend(create_ok) ELSE "none"
             use_local == resolved = "local" \/ made = "none"
         IN [sm |-> [m EXCEPT !.backend =
                        IF use_local THEN "local" ELSE made],
             log |-> [lg EXCEPT
                        !.resolved = resolved,
                        !.fellBack = (resolved = "remote" /\ made = "none"),
                        !.built = @ \o (IF resolved = "remote"
                                        THEN << made >> ELSE << >>)
                                    \o (IF use_local
                                        THEN << "local" >> ELSE << >>),
                        !.nLocal = IF use_local THEN @ + 1 ELSE @,
                        !.nRemote = IF made = "remote" THEN @ + 1 ELSE @]]

\* "if self._remote_backend is None:
\*      self._remote_backend = self._create_remote_backend()"
\* of pull_from_remote and cleanup_old_data
EnsureRemoteBackend(m, lg, create_ok) ==
    IF m.remote_backend # "none"
    THEN [sm |-> m, log |-> lg]
    ELSE LET made == CreateRemoteBackend(create_ok)
         IN [sm |-> [m EXCEPT !.remote_backend = made],
             log |-> [lg EXCEPT
                        !.built = Append(@, made),
                        !.nRemote = IF made = "remote" THEN @ + 1 ELSE @]]

\* ---------------------------------------------------------------------- Init
\* no process has run yet: empty storage, the first day
NothingRunYet ==
    /\ today = 1
    /\ now = 0
    /\ store = EmptyBucket
    /\ pushRecord = [d \in Days |-> {}]
    /\ exitStatus = "none"
    /\ runs = 0
    /\ honoured = 0
    /\ kind = "none"
    /\ results = NoTitles
    /\ saved = FALSE
    /\ summaryHtml = FALSE
    /\ loadFailed = FALSE
    /\ valid = FALSE
    /\ gate = "none"
    /\ dispatchResults = NoResults
    /\ raised = FALSE
    /\ rtSent = 0
    /\ sumSent = 0
    /\ recorded = 0
    /\ cleanups = 0

\* StorageManager() with the defaults of its arguments, nothing set in the
\* environment
DefaultManager ==
    NewManager("auto", [key \in CredKeys |-> NoValue], 0, 0, FALSE, 0,
               NoValue, [key \in CredKeys |-> NoValue])

\* the manager is left alone where the pipeline is looked at on its own
ManagerUntouched == sm = DefaultManager /\ smLog = EmptyLog

\* no function is called on its own, the backends' data is not looked at
NoCall == [fn |-> "none"]
NoReturn == [done |-> FALSE]
NoBackendData == [b \in {} |-> {}]
NothingCrawled == [p \in Platforms |-> {}]
CallsUntouched ==
    /\ call = NoCall /\ ret = NoReturn /\ backendData = NoBackendData
    /\ crawled = NothingCrawled

Init ==
    /\ cfg \in Configs
    /\ pc = "idle"
    /\ newTitles = NoTitles
    /\ stats = << >>
    /\ NothingRunYet
    /\ ManagerUntouched
    /\ CallsUntouched

\* ------------------------------------------------------------------ actions
runVars == << kind, results, saved, newTitles, stats, summaryHtml,
              loadFailed, valid, gate, dispatchResults, raised, rtSent,
              sumSent, recorded >>

\* time of day passes between two process invocations
Tick ==
    /\ pc = "idle"
    /\ runs < MaxRuns
    /\ now < MaxTime
    /\ now' = now + 1
    /\ UNCHANGED << confVars, today, storeVars, countVars, pc, runVars,
                    exitStatus, runs, cleanups >>

\* midnight passes between two process invocations: the new calendar day
\* has an empty day-bucket and no push record yet
NextDay ==
    /\ pc = "idle"
    /\ runs < MaxRuns
    /\ today < MaxDay
    /\ today' = today + 1
    /\ now' = 0
    /\ store' = EmptyBucket
    /\ honoured' = 0
    /\ UNCHANGED << confVars, pushRecord, pc, runVars, exitStatus, runs,
                    cleanups >>

\* what can go wrong in NewsAnalyzer.__init__: load_config does not find the
\* configuration file, or STORAGE_RETENTION_DAYS is set to something int()
\* does not accept
InitFailures == {"config_file_missing", "retention_days_malformed"}

\* the exception NewsAnalyzer() then raises
ConstructorException(failure) ==
    IF failure = "config_file_missing"
    THEN "FileNotFoundError" ELSE "ValueError"

\* main: FileNotFoundError is reported and swallowed, any other exception
\* is reported and raised again
MainExit(exception) ==
    IF exception \in {"none", "FileNotFoundError"} THEN "ok" ELSE "error"

\* NewsAnalyzer.run after _initialize_and_check_config: with the crawler
\* disabled that method returns early, to run, which goes on as it does
\* when the method returns at its end
AfterConfigCheck(enable_crawler) == "crawl"

\* a process starts: main, NewsAnalyzer(), NewsAnalyzer.run up to _crawl_data
StartRun ==
    /\ pc = "idle"
    /\ runs < MaxRuns
    /\ runs' = runs + 1
    /\ cleanups' = 0
    /\ exitStatus' = "none"
    /\ pc' = AfterConfigCheck(cfg.ENABLE_CRAWLER)
    /\ UNCHANGED << confVars, clockVars, storeVars, countVars, runVars >>

\* a process starts and NewsAnalyzer() raises: run is never called
ConstructorFails ==
    /\ pc = "idle"
    /\ runs < MaxRuns
    /\ \E failure \in InitFailures :
          exitStatus' = MainExit(ConstructorException(failure))
    /\ UNCHANGED << confVars, clockVars, storeVars, countVars, pc, runVars,
                    runs, cleanups >>

\* a bug: the statistics are computed without detecting the new titles
AfterCrawl_StraightToStats == "execute"

\* NewsAnalyzer.run: _crawl_data is followed by _execute_mode_strategy, whose
\* first call is detect_new_titles
AfterCrawl == "detect"

\* NewsAnalyzer._crawl_data: fetch, then save to the storage backend
CrawlData ==
    /\ pc = "crawl"
    /\ \E data \in TitleMaps, ok \in BOOLEAN :
          /\ results' = data
          /\ saved' = ok
          /\ store' = IF ok THEN SaveNewsData(store, data) ELSE store
    /\ pc' = AfterCrawl
    /\ UNCHANGED << confVars, clockVars, pushRecord, countVars, kind,
                    newTitles, stats, summaryHtml, loadFailed, valid, gate,
                    dispatchResults, raised, exitStatus, runs, rtSent,
                    sumSent, recorded, cleanups >>

\* NewsAnalyzer._load_analysis_data: None when the day has no data or when
\* reading raises, else the day's titles and the new titles
LoadAnalysisData(bucket, read_ok) ==
    IF ~read_ok \/ DOMAIN ReadTodayTitles(bucket) = {}
    THEN [none |-> TRUE, all_results |-> NoTitles, new_titles |-> NoTitles]
    ELSE [none |-> FALSE,
          all_results |-> ReadTodayTitles(bucket),
          new_titles |-> DetectNewTitles(bucket)]

\* a bug: the real-time statistics are always those of this crawl
AnalysisInput_AlwaysCrawl(report_mode, crawl, day_data) == crawl

\* _execute_mode_strategy: the data _run_analysis_pipeline is called with
AnalysisInput(report_mode, crawl, day_data) ==
    IF report_mode = "current" THEN day_data ELSE crawl

\* NewsAnalyzer._execute_mode_strategy, its first call: the new titles of
\* the day as the store has them now
DetectStep ==
    /\ pc = "detect"
    /\ newTitles' = DetectNewTitles(store)
    /\ pc' = "execute"
    /\ UNCHANGED << confVars, clockVars, storeVars, countVars, kind, results,
                    saved, stats, summaryHtml, loadFailed, valid, gate,
                    dispatchResults, raised, exitStatus, runs, rtSent,
                    sumSent, recorded, cleanups >>

\* NewsAnalyzer._execute_mode_strategy from the analysis up to the real-time
\* notification
ExecuteModeStrategy ==
    /\ pc = "execute"
    /\ LET strategy == GetModeStrategy(cfg.REPORT_MODE)
           next_pc == IF strategy.should_send_realtime
                      THEN "send" ELSE "summary"
           next_kind == IF strategy.should_send_realtime
                        THEN "realtime" ELSE "none"
       IN IF cfg.REPORT_MODE = "current"
          THEN \E read_ok \in BOOLEAN :
                 LET data == LoadAnalysisData(store, read_ok)
                 IN IF data.none
                    THEN /\ raised' = TRUE
                         /\ loadFailed' = TRUE
                         /\ pc' = "cleanup"
                         /\ UNCHANGED << stats, newTitles, kind >>
                    ELSE /\ stats' = CountFrequency(
                                AnalysisInput(cfg.REPORT_MODE, results,
                                              data.all_results))
                         /\ newTitles' = data.new_titles
                         /\ kind' = next_kind
                         /\ pc' = next_pc
                         /\ UNCHANGED << raised, loadFailed >>
          ELSE /\ stats' = CountFrequency(
                      AnalysisInput(cfg.REPORT_MODE, results, NoTitles))
               /\ newTitles' = newTitles
               /\ kind' = next_kind
               /\ pc' = next_pc
               /\ UNCHANGED << raised, loadFailed >>
    /\ UNCHANGED << confVars, clockVars, storeVars, countVars, results, saved,
                    summaryHtml, valid, gate, dispatchResults, exitStatus,
                    runs, rtSent, sumSent, recorded, cleanups >>

\* NewsAnalyzer._send_notification_if_needed up to the dispatcher: the
\* configuration and content conditions, then the push window control
SendNotificationIfNeeded ==
    /\ pc = "send"
    /\ LET content == HasValidContent(cfg.REPORT_MODE, stats, newTitles)
           verdict == PushGate(cfg.PUSH_WINDOW, now,
                               HasPushedToday(pushRecord, today))
       IN /\ valid' = content
          /\ IF cfg.ENABLE_NOTIFICATION /\ cfg.HAS_NOTIFICATION /\ content
             THEN /\ gate' = verdict
                  /\ pc' = IF verdict = "admit"
                           THEN "dispatch" ELSE AfterSend(kind)
             ELSE /\ gate' = "not_consulted"
                  /\ pc' = AfterSend(kind)
    /\ UNCHANGED << confVars, clockVars, storeVars, countVars, kind, results,
                    saved, newTitles, stats, summaryHtml, loadFailed,
                    dispatchResults, raised, exitStatus, runs, rtSent,
                    sumSent, recorded, cleanups >>

\* dispatcher.dispatch_all and what follows it in
\* _send_notification_if_needed; the result map is a local of that method,
\* gone when it returns
DispatchAll ==
    /\ pc = "dispatch"
    /\ \E res \in DispatchOutcomes :
          /\ honoured' = IF AnySuccess(res) THEN honoured + 1 ELSE honoured
          /\ IF DOMAIN res # {} /\ ShouldRecordPush(cfg.PUSH_WINDOW, res)
             THEN /\ dispatchResults' = res
                  /\ pc' = "record"
             ELSE /\ dispatchResults' = NoResults
                  /\ pc' = AfterSend(kind)
    /\ rtSent' = IF kind = "realtime" THEN rtSent + 1 ELSE rtSent
    /\ sumSent' = IF kind = "summary" THEN sumSent + 1 ELSE sumSent
    /\ UNCHANGED << confVars, clockVars, storeVars, kind, results, saved,
                    newTitles, stats, summaryHtml, loadFailed, valid, gate,
                    raised, exitStatus, runs, recorded, cleanups >>

\* the report type _send_notification_if_needed was called with
ReportType(k) ==
    IF k = "realtime"
    THEN GetModeStrategy(cfg.REPORT_MODE).realtime_report_type
    ELSE GetModeStrategy(cfg.REPORT_MODE).summary_report_type

\* push_manager.record_push(report_type)
RecordPushStep ==
    /\ pc = "record"
    /\ pushRecord' = RecordPush(pushRecord, today, ReportType(kind))
    /\ recorded' = recorded + 1
    /\ dispatchResults' = NoResults
    /\ pc' = AfterSend(kind)
    /\ UNCHANGED << confVars, clockVars, store, countVars, kind, results,
                    saved, newTitles, stats, summaryHtml, loadFailed, valid,
                    gate, raised, exitStatus, runs, rtSent, sumSent,
                    cleanups >>

\* _execute_mode_strategy, "Generate summary report (if needed)":
\* _generate_summary_html when the mode sends real-time notifications,
\* _generate_summary_report (which notifies) otherwise
GenerateSummary ==
    /\ pc = "summary"
    /\ LET strategy == GetModeStrategy(cfg.REPORT_MODE)
       IN \E read_ok \in BOOLEAN :
            LET data == LoadAnalysisData(store, read_ok)
            IN IF ~strategy.should_generate_summary
               THEN /\ pc' = "cleanup"
                    /\ UNCHANGED << stats, newTitles, summaryHtml,
                                    loadFailed, kind >>
               ELSE IF data.none
               THEN /\ loadFailed' = TRUE
                    /\ pc' = "cleanup"
                    /\ UNCHANGED << stats, newTitles, summaryHtml, kind >>
               ELSE IF ~SummaryNotifies(strategy)
               THEN /\ summaryHtml' = cfg.HTML
                    /\ pc' = "cleanup"
                    /\ UNCHANGED << stats, newTitles, loadFailed, kind >>
               ELSE /\ stats' = CountFrequency(data.all_results)
                    /\ newTitles' = data.new_titles
                    /\ summaryHtml' = cfg.HTML
                    /\ kind' = "summary"
                    /\ pc' = "send"
                    /\ UNCHANGED loadFailed
    /\ UNCHANGED << confVars, clockVars, storeVars, countVars, results, saved,
                    valid, gate, dispatchResults, raised, exitStatus, runs,
                    rtSent, sumSent, recorded, cleanups >>

\* the locals of a process are gone when it ends
ResetRunLocals ==
    /\ kind' = "none"
    /\ results' = NoTitles
    /\ saved' = FALSE
    /\ newTitles' = NoTitles
    /\ stats' = << >>
    /\ summaryHtml' = FALSE
    /\ loadFailed' = FALSE
    /\ valid' = FALSE
    /\ gate' = "none"
    /\ dispatchResults' = NoResults
    /\ raised' = FALSE
    /\ rtSent' = 0
    /\ sumSent' = 0
    /\ recorded' = 0

\* a bug: no finally clause, ctx.cleanup() at the end of the try block
Cleanup_NoFinally ==
    /\ pc = "cleanup"
    /\ cleanups' = IF raised THEN cleanups ELSE cleanups + 1
    /\ exitStatus' = MainExit(IF raised THEN "RuntimeError" ELSE "none")
    /\ pc' = "idle"
    /\ ResetRunLocals
    /\ UNCHANGED << confVars, clockVars, storeVars, countVars, runs >>

\* NewsAnalyzer.run, the finally clause, and the end of the process (main)
Cleanup ==
    /\ pc = "cleanup"
    /\ cleanups' = cleanups + 1
    /\ exitStatus' = MainExit(IF raised THEN "RuntimeError" ELSE "none")
    /\ pc' = "idle"
    /\ ResetRunLocals
    /\ UNCHANGED << confVars, clockVars, storeVars, countVars, runs >>

Next ==
    \/ Tick
    \/ NextDay
    \/ StartRun
    \/ ConstructorFails
    \/ CrawlData
    \/ DetectStep
    \/ ExecuteModeStrategy
    \/ SendNotificationIfNeeded
    \/ DispatchAll
    \/ RecordPushStep
    \/ GenerateSummary
    \/ Cleanup

Spec == Init /\ [][Next]_vars

\* the runs of a configuration whose ENABLE_CRAWLER is false
InitCrawlerOff ==
    /\ cfg \in CrawlerOffConfigs
    /\ pc = "idle"
    /\ newTitles = NoTitles
    /\ stats = << >>
    /\ NothingRunYet
    /\ ManagerUntouched
    /\ CallsUntouched

SpecCrawlerOff == InitCrawlerOff /\ [][Next]_vars

\* ------------------------------------------- the content gate on its own
\* stats lists of up to two groups with counts 0..MaxCount
StatLists ==
    UNION {[1..n -> [word : {"G"}, count : 0..MaxCount]] : n \in 0..2}

InitGate ==
    /\ cfg \in {c \in Configs : /\ c.ENABLE_NOTIFICATION
                                /\ c.HAS_NOTIFICATION
                                /\ c.HTML
                                /\ ~c.PUSH_WINDOW.enabled
                                /\ ~c.PUSH_WINDOW.once_per_day}
    /\ stats \in StatLists
    /\ newTitles \in TitleMaps
    /\ pc = "gate"
    /\ NothingRunYet
    /\ ManagerUntouched
    /\ CallsUntouched

\* one call of NewsAnalyzer._has_valid_content(stats, new_titles)
EvalGate ==
    /\ pc = "gate"
    /\ valid' = HasValidContent(cfg.REPORT_MODE, stats, newTitles)
    /\ pc' = "gate_done"
    /\ UNCHANGED << confVars, clockVars, storeVars, countVars, kind, results,
                    saved, newTitles, stats, summaryHtml, loadFailed, gate,
                    dispatchResults, raised, exitStatus, runs, rtSent,
                    sumSent, recorded, cleanups >>

NextGate == EvalGate

SpecGate == InitGate /\ [][NextGate]_vars

\* ------------------------------------------ the storage manager on its own
\* where the four credentials come from: nowhere, the configuration, the
\* environment, two from each, or the configuration with one missing
CredScenarios ==
    { << [key \in CredKeys |-> NoValue], [key \in CredKeys |-> NoValue] >>,
      << [key \in CredKeys |-> "c"], [key \in CredKeys |-> NoValue] >>,
      << [key \in CredKeys |-> NoValue], [key \in CredKeys |-> "e"] >>,
      << [key \in CredKeys |->
            IF key \in {"bucket_name", "access_key_id"}
            THEN "c" ELSE NoValue],
         [key \in CredKeys |->
            IF key \in {"bucket_name", "access_key_id"}
            THEN NoValue ELSE "e"] >>,
      << [key \in CredKeys |->
            IF key = "endpoint_url" THEN NoValue ELSE "c"],
         [key \in CredKeys |-> NoValue] >> }

\* retention settings: 0 or a number of days, not the same for the two
\* stores so that a call shows whose setting it was given
LocalRetentions == {0, 7}
RemoteRetentions == {0, 30}
PullDays == {-1, 0, 2}

\* the managers whose operations are looked at
StorageManagers ==
    {NewManager(t, cred[1], lr, rr, pe, pd, gha, cred[2]) :
        t \in BackendTypes, cred \in CredScenarios, lr \in LocalRetentions,
        rr \in RemoteRetentions, pe \in BOOLEAN, pd \in PullDays,
        gha \in {NoValue, "true"}}

\* one fixed configuration stands for the pipeline's, which the manager
\* never reads
DefaultConfig ==
    [REPORT_MODE |-> "daily", ENABLE_CRAWLER |-> TRUE,
     ENABLE_NOTIFICATION |-> FALSE,
     HAS_NOTIFICATION |-> FALSE, HTML |-> FALSE,
     PUSH_WINDOW |-> [enabled |-> TRUE, once_per_day |-> TRUE,
                      start |-> 1, end |-> 1]]

PipelineUntouched ==
    /\ cfg = DefaultConfig
    /\ newTitles = NoTitles
    /\ stats = << >>
    /\ NothingRunYet

InitStorage ==
    /\ sm \in StorageManagers
    /\ smLog = EmptyLog
    /\ CallsUntouched
    /\ pc = "storage"
    /\ PipelineUntouched

pipelineVars == << cfg, today, now, store, pushRecord, kind, results, saved,
                   newTitles, stats, summaryHtml, loadFailed, valid, gate,
                   dispatchResults, raised, exitStatus, runs, rtSent,
                   sumSent, recorded, cleanups, honoured, backendData,
                   call, ret, crawled >>

\* what a call of a pure function leaves alone
pipelineVarsButRet == << cfg, today, now, store, pushRecord, kind, results,
                         saved, newTitles, stats, summaryHtml, loadFailed,
                         valid, gate, dispatchResults, raised, exitStatus,
                         runs, rtSent, sumSent, recorded, cleanups, honoured,
                         backendData, call, crawled >>

\* an operation the manager delegates to its backend: save_news_data,
\* get_today_all_data, detect_new_titles, has_pushed_today, record_push, ...
\* each is self.get_backend().<operation>(...)
StorageOperation ==
    /\ pc = "storage"
    /\ \E create_ok \in BOOLEAN :
          LET got == GetBackend(sm, StartOp(smLog, "delegated"), create_ok)
          IN /\ sm' = got.sm
             /\ smLog' = [got.log EXCEPT !.delegate = got.sm.backend]
    /\ UNCHANGED << pc, pipelineVars >>

\* a bug: pull_days is not looked at
PullIsNoop_IgnoresDays(m) == ~m.pull_enabled \/ ~HasRemoteConfig(m)

\* pull_from_remote, its two early returns: pulling disabled or no days to
\* pull, or remote storage not configured
PullIsNoop(m) ==
    (~m.pull_enabled \/ m.pull_days <= 0) \/ ~HasRemoteConfig(m)

\* StorageManager.pull_from_remote
PullFromRemote ==
    /\ pc = "storage"
    /\ \E create_ok \in BOOLEAN, pulled \in 0..MaxDeleted :
          LET lg == StartOp(smLog, "pull_from_remote")
              ensured == EnsureRemoteBackend(sm, lg, create_ok)
          IN IF PullIsNoop(sm)
             THEN sm' = sm /\ smLog' = lg
             ELSE /\ sm' = ensured.sm
                  /\ smLog' =
                       IF ensured.sm.remote_backend = "none"
                       THEN ensured.log
                       ELSE [ensured.log EXCEPT
                               !.calls = Append(@, [store |-> "remote",
                                                    call |-> "pull",
                                                    days |-> sm.pull_days,
                                                    count |-> pulled]),
                               !.ret = pulled]
    /\ UNCHANGED << pc, pipelineVars >>

\* StorageManager.cleanup_old_data
CleanupOldData ==
    /\ pc = "storage"
    /\ \E ok1, ok2 \in BOOLEAN, d1, d2 \in 0..MaxDeleted :
          LET lg0 == StartOp(smLog, "cleanup_old_data")
              \* "Cleanup local data"
              local_part == sm.local_retention_days > 0
              got == IF local_part
                     THEN GetBackend(sm, lg0, ok1)
                     ELSE [sm |-> sm, log |-> lg0]
              lg1 == IF local_part
                     THEN [got.log EXCEPT
                             !.calls = Append(@,
                                 [store |-> got.sm.backend,
                                  call |-> "cleanup",
                                  days |-> sm.local_retention_days,
                                  count |-> d1]),
                             !.ret = @ + d1]
                     ELSE got.log
              \* "Cleanup remote data (if configured)"
              remote_part == /\ sm.remote_retention_days > 0
                             /\ HasRemoteConfig(sm)
              ensured == IF remote_part
                         THEN EnsureRemoteBackend(got.sm, lg1, ok2)
                         ELSE [sm |-> got.sm, log |-> lg1]
              lg2 == IF remote_part /\ ensured.sm.remote_backend # "none"
                     THEN [ensured.log EXCEPT
                             !.calls = Append(@,
                                 [store |-> "remote",
                                  call |-> "cleanup",
                                  days |-> sm.remote_retention_days,
                                  count |-> d2]),
                             !.ret = @ + d2]
                     ELSE ensured.log
          IN sm' = ensured.sm /\ smLog' = lg2
    /\ UNCHANGED << pc, pipelineVars >>

NextStorage ==
    \/ StorageOperation
    \/ PullFromRemote
    \/ CleanupOldData

SpecStorage == InitStorage /\ [][NextStorage]_vars

\* --------------------------------- the resolved backend type on its own
\* every way the four credentials can be present or absent in the
\* configuration and in the environment
AllManagers ==
    {NewManager(t, rc, 0, 0, FALSE, 0, gha, env) :
        t \in BackendTypes, rc \in [CredKeys -> {NoValue, "c"}],
        gha \in {NoValue, "true"}, env \in [CredKeys -> {NoValue, "e"}]}

InitResolve ==
    /\ sm \in AllManagers
    /\ smLog = EmptyLog
    /\ CallsUntouched
    /\ pc = "resolve"
    /\ PipelineUntouched

\* one call of StorageManager._resolve_backend_type
ResolveStep ==
    /\ pc = "resolve"
    /\ smLog' = [StartOp(smLog, "_resolve_backend_type") EXCEPT
                   !.resolved = ResolveBackendType(sm)]
    /\ pc' = "resolve_done"
    /\ UNCHANGED << sm, pipelineVars >>

NextResolve == ResolveStep

SpecResolve == InitResolve /\ [][NextResolve]_vars

\* ------------------------------------------------------------------ strings
\* a string is the sequence of its characters
MaxLen == 3         \* longest string given to a function

Strings(alphabet) == UNION {[1..n -> alphabet] : n \in 0..MaxLen}

IsSpace(c) == c = " "

\* str.lstrip()
RECURSIVE LStrip(_)
LStrip(str) ==
    IF str # << >> /\ IsSpace(Head(str)) THEN LStrip(Tail(str)) ELSE str

\* str.rstrip()
RECURSIVE RStrip(_)
RStrip(str) ==
    IF str # << >> /\ IsSpace(str[Len(str)])
    THEN RStrip(SubSeq(str, 1, Len(str) - 1)) ELSE str

\* str.strip()
Strip(str) == RStrip(LStrip(str))

Digits == {"0", "7"}
DigitValue(c) == IF c = "7" THEN 7 ELSE 0

\* the number a string of digits writes
RECURSIVE DecimalValue(_)
DecimalValue(str) ==
    IF str = << >> THEN 0
    ELSE 10 * DecimalValue(SubSeq(str, 1, Len(str) - 1))
         + DigitValue(str[Len(str)])

\* int(str), for a string without a sign: ValueError unless the string,
\* stripped, is one or more digits
IntOf(str) ==
    LET digits == Strip(str)
    IN IF digits # << >> /\ \A i \in DOMAIN digits : digits[i] \in Digits
       THEN [raised |-> FALSE, value |-> DecimalValue(digits)]
       ELSE [raised |-> TRUE, value |-> 0]

\* ------------------------------------- environment overrides on their own
\* RETENTION_DAYS of the STORAGE section: missing, or a number of days
ConfigRetentions ==
    {[present |-> FALSE, value |-> 0], [present |-> TRUE, value |-> 0],
     [present |-> TRUE, value |-> 30]}

\* what STORAGE_RETENTION_DAYS may be set to; the empty string stands for
\* a variable that is not set (os.environ.get(..., ""))
EnvRetentions == Strings({" ", "7", "x"})

\* a bug: the environment is read only where the configuration has no value
EffectiveRetention_ConfigFirst(config_days, env_value) ==
    IF ~config_days.present /\ Strip(env_value) # << >>
    THEN [raised |-> IntOf(Strip(env_value)).raised, present |-> TRUE,
          value |-> IntOf(Strip(env_value)).value]
    ELSE [raised |-> FALSE, present |-> config_days.present,
          value |-> config_days.value]

\* NewsAnalyzer._init_storage_manager: RETENTION_DAYS of the configuration
\* after the override, or the ValueError of int()
EffectiveRetention(config_days, env_value) ==
    LET env_retention == Strip(env_value)
    IN IF env_retention # << >>
       THEN [raised |-> IntOf(env_retention).raised, present |-> TRUE,
             value |-> IntOf(env_retention).value]
       ELSE [raised |-> FALSE, present |-> config_days.present,
             value |-> config_days.value]

\* the managers that differ in where each credential is present
CredentialManagers == {m \in AllManagers : m.backend_type = "remote" /\ m.github_actions = NoValue}

InitOverride ==
    /\ sm \in CredentialManagers
    /\ smLog = EmptyLog
    /\ call \in [fn : {"_init_storage_manager"},
                 config_days : ConfigRetentions, env_value : EnvRetentions]
    /\ ret = NoReturn
    /\ backendData = NoBackendData
    /\ crawled = NothingCrawled
    /\ pc = "override"
    /\ PipelineUntouched

\* _init_storage_manager, then the credentials _create_remote_backend
\* passes to RemoteStorageBackend
OverrideStep ==
    /\ pc = "override"
    /\ ret' = [done |-> TRUE,
               retention |-> EffectiveRetention(call.config_days,
                                                call.env_value),
               credentials |-> [key \in CredKeys |-> Credential(sm, key)]]
    /\ pc' = "override_done"
    /\ UNCHANGED << cfg, today, now, store, pushRecord, kind, results, saved,
                    newTitles, stats, summaryHtml, loadFailed, valid, gate,
                    dispatchResults, raised, exitStatus, runs, rtSent,
                    sumSent, recorded, cleanups, honoured, sm, smLog,
                    backendData, call, crawled >>

NextOverride == OverrideStep

SpecOverride == InitOverride /\ [][NextOverride]_vars

\* ---------------------------------------------- multi-account configuration
Separator == ";"

\* str.split(sep) for a separator of one character
RECURSIVE Split(_, _)
Split(str, sep) ==
    IF \E i \in DOMAIN str : str[i] = sep
    THEN LET first == CHOOSE i \in DOMAIN str :
                          str[i] = sep /\ \A j \in 1..(i - 1) : str[j] # sep
         IN << SubSeq(str, 1, first - 1) >>
            \o Split(SubSeq(str, first + 1, Len(str)), sep)
    ELSE << str >>

\* a bug: the elements are returned as they stand between the separators
ParseMultiAccountConfig_NoStrip(config_value, separator) ==
    IF config_value = << >> THEN << >>
    ELSE LET accounts == Split(config_value, separator)
         IN IF \A i \in DOMAIN accounts : accounts[i] = << >>
            THEN << >> ELSE accounts

\* parse_multi_account_config
ParseMultiAccountConfig(config_value, separator) ==
    IF config_value = << >> THEN << >>
    ELSE LET parts == Split(config_value, separator)
             accounts == [i \in DOMAIN parts |-> Strip(parts[i])]
         IN IF \A i \in DOMAIN accounts : accounts[i] = << >>
            THEN << >> ELSE accounts

\* a bug: the lengths are not compared
ValidatePairedConfigs_NoCompare(configs, required_keys) ==
    LET non_empty == {k \in DOMAIN configs : configs[k] # << >>}
    IN IF non_empty = {} THEN << TRUE, 0 >>
       ELSE IF \E key \in required_keys : key \notin non_empty
       THEN << TRUE, 0 >>
       ELSE << TRUE, Len(configs[CHOOSE k \in non_empty : TRUE]) >>

\* validate_paired_configs: (validation passed, account count)
ValidatePairedConfigs(configs, required_keys) ==
    LET non_empty == {k \in DOMAIN configs : configs[k] # << >>}
        unique_lengths == {Len(configs[k]) : k \in non_empty}
    IN IF non_empty = {} THEN << TRUE, 0 >>
       ELSE IF \E key \in required_keys : key \notin non_empty
       THEN << TRUE, 0 >>
       ELSE IF Cardinality(unique_lengths) > 1 THEN << FALSE, 0 >>
       ELSE << TRUE, CHOOSE n \in unique_lengths : TRUE >>

\* accounts[:stop], a Python slice: a negative stop counts from the end
SliceTo(accounts, stop) ==
    LET last == IF stop >= 0 THEN stop ELSE Len(accounts) + stop
    IN IF last <= 0 THEN << >>
       ELSE IF last >= Len(accounts) THEN accounts
       ELSE SubSeq(accounts, 1, last)

\* a bug: one account too many is kept
LimitAccounts_OneMore(accounts, max_count) ==
    IF Len(accounts) > max_count + 1
    THEN SliceTo(accounts, max_count + 1) ELSE accounts

\* limit_accounts
LimitAccounts(accounts, max_count) ==
    IF Len(accounts) > max_count
    THEN SliceTo(accounts, max_count) ELSE accounts

\* the inputs of the three functions
ConfigStrings == Strings({"a", Separator, " "})
PairedKeys == {"token", "chat_id", "extra"}
PairedLists == UNION {[1..n -> {<< >>, << "t" >>}] : n \in 0..MaxLen}
AccountLists == UNION {[1..n -> {<< "a" >>, << "b" >>}] : n \in 0..MaxLen}
MaxCounts == 0..(MaxLen + 1)

ConfigCalls ==
    [fn : {"parse_multi_account_config"}, config_value : ConfigStrings]
    \cup [fn : {"validate_paired_configs"},
          configs : [PairedKeys -> PairedLists],
          required_keys : SUBSET PairedKeys]
    \cup [fn : {"limit_accounts"},
          accounts : AccountLists, max_count : MaxCounts]

InitConfig ==
    /\ call \in ConfigCalls
    /\ ret = NoReturn
    /\ backendData = NoBackendData
    /\ crawled = NothingCrawled
    /\ pc = "config"
    /\ sm = DefaultManager
    /\ smLog = EmptyLog
    /\ PipelineUntouched

ParseStep ==
    /\ pc = "config"
    /\ call.fn = "parse_multi_account_config"
    /\ ret' = [done |-> TRUE, applied |-> 1,
               result |-> ParseMultiAccountConfig(call.config_value,
                                                  Separator)]
    /\ pc' = "config_done"
    /\ UNCHANGED << pipelineVarsButRet, sm, smLog >>

ValidateStep ==
    /\ pc = "config"
    /\ call.fn = "validate_paired_configs"
    /\ ret' = [done |-> TRUE, applied |-> 1,
               result |-> ValidatePairedConfigs(call.configs,
                                                call.required_keys)]
    /\ pc' = "config_done"
    /\ UNCHANGED << pipelineVarsButRet, sm, smLog >>

LimitStep ==
    /\ pc = "config"
    /\ call.fn = "limit_accounts"
    /\ ret' = [done |-> TRUE, applied |-> 1, previous |-> call.accounts,
               result |-> LimitAccounts(call.accounts, call.max_count)]
    /\ pc' = "config_done"
    /\ UNCHANGED << pipelineVarsButRet, sm, smLog >>

\* the limit applied to its own result
LimitAgain ==
    /\ pc = "config_done"
    /\ call.fn = "limit_accounts"
    /\ ret.applied = 1
    /\ ret' = [done |-> TRUE, applied |-> 2, previous |-> ret.result,
               result |-> LimitAccounts(ret.result, call.max_count)]
    /\ UNCHANGED << pipelineVarsButRet, sm, smLog, pc >>

NextConfig == ParseStep \/ ValidateStep \/ LimitStep \/ LimitAgain

SpecConfig == InitConfig /\ [][NextConfig]_vars

\* ------------------------------------------------- novelty over a day
\* the crawls of one day, one run after the other: what each run's
\* detection calls report, against what the earlier crawls of the day had
InitNovelty ==
    /\ PipelineUntouched
    /\ ManagerUntouched
    /\ CallsUntouched
    /\ pc = "novelty_crawl"

noveltyFrame == << cfg, sm, smLog, backendData, call, ret, today, now,
                  pushRecord, kind, stats, summaryHtml, valid, gate,
                  dispatchResults, raised, exitStatus, rtSent, sumSent,
                  recorded, cleanups, honoured >>

\* _crawl_data: the crawl, and save_news_data whose result is only printed
NoveltyCrawl ==
    /\ pc = "novelty_crawl"
    /\ runs < MaxRuns
    /\ \E data \in TitleMaps, ok \in BOOLEAN :
          /\ results' = data
          /\ saved' = ok
          /\ store' = IF ok THEN SaveNewsData(store, data) ELSE store
    /\ runs' = runs + 1
    /\ pc' = "novelty_detect"
    /\ UNCHANGED << noveltyFrame, newTitles, loadFailed, crawled >>

\* _execute_mode_strategy: ctx.detect_new_titles(current_platform_ids)
NoveltyDetect ==
    /\ pc = "novelty_detect"
    /\ newTitles' = DetectNewTitles(store)
    /\ pc' = "novelty_load"
    /\ UNCHANGED << noveltyFrame, store, results, saved, runs, loadFailed,
                    crawled >>

\* _load_analysis_data: the detection called again, when the day has data
NoveltyDetectAgain ==
    /\ pc = "novelty_load"
    /\ \E read_ok \in BOOLEAN :
         LET data == LoadAnalysisData(store, read_ok)
         IN /\ loadFailed' = data.none
            /\ newTitles' = IF data.none THEN newTitles ELSE data.new_titles
    /\ pc' = "novelty_end"
    /\ UNCHANGED << noveltyFrame, store, results, saved, runs, crawled >>

\* the run ends; its crawl is now one of the earlier crawls of the day
NoveltyEndRun ==
    /\ pc = "novelty_end"
    /\ crawled' = [p \in Platforms |->
                     crawled[p] \cup (IF p \in DOMAIN results
                                      THEN results[p] ELSE {})]
    /\ results' = NoTitles
    /\ saved' = FALSE
    /\ newTitles' = NoTitles
    /\ loadFailed' = FALSE
    /\ pc' = "novelty_crawl"
    /\ UNCHANGED << noveltyFrame, store, runs >>

NextNovelty ==
    NoveltyCrawl \/ NoveltyDetect \/ NoveltyDetectAgain \/ NoveltyEndRun

SpecNovelty == InitNovelty /\ [][NextNovelty]_vars

\* ------------------------------------------------ the day's data, saved
\* the titles of a day with their counts, one platform
EmptyDay == [t \in {} |-> 0]

\* a NewsData: each title the crawl observed, with count 1
NewsDatas == UNION {[S -> {1}] : S \in SUBSET Titles}

CountIn(day_data, title) ==
    IF title \in DOMAIN day_data THEN day_data[title] ELSE 0

\* the backend's save_news_data: merge-append into the day's Title History
MergeNewsData(day_data, data) ==
    [t \in (DOMAIN day_data) \cup (DOMAIN data) |->
        CountIn(day_data, t) + CountIn(data, t)]

\* the managers that save: retention and pulling play no part
SaveManagers ==
    {m \in StorageManagers :
        /\ ~m.pull_enabled /\ m.pull_days = 0
        /\ m.local_retention_days = 0 /\ m.remote_retention_days = 0}

InitSave ==
    /\ sm \in SaveManagers
    /\ smLog = EmptyLog
    /\ call = NoCall
    /\ ret = NoReturn
    /\ backendData = [b \in {"local", "remote"} |-> EmptyDay]
    /\ crawled = NothingCrawled
    /\ pc = "save"
    /\ PipelineUntouched

saveFrame == << cfg, today, now, store, pushRecord, pc, kind, results, saved,
               newTitles, stats, summaryHtml, loadFailed, valid, gate,
               dispatchResults, raised, exitStatus, rtSent, sumSent,
               recorded, cleanups, honoured, crawled >>

\* StorageManager.save_news_data: self.get_backend().save_news_data(data)
SaveNewsDataStep ==
    /\ pc = "save"
    /\ runs < MaxRuns
    /\ \E data \in NewsDatas, create_ok \in BOOLEAN, ok \in BOOLEAN :
          LET got == GetBackend(sm, StartOp(smLog, "save_news_data"),
                                create_ok)
          IN /\ sm' = got.sm
             /\ smLog' = [got.log EXCEPT !.delegate = got.sm.backend]
             /\ backendData' =
                  IF ok
                  THEN [backendData EXCEPT ![got.sm.backend] =
                            MergeNewsData(@, data)]
                  ELSE backendData
             /\ call' = [fn |-> "save_news_data", data |-> data]
             /\ ret' = [done |-> TRUE, ok |-> ok, data |-> EmptyDay]
    /\ runs' = runs + 1
    /\ UNCHANGED saveFrame

\* StorageManager.get_today_all_data:
\* self.get_backend().get_today_all_data(date)
GetTodayAllDataStep ==
    /\ pc = "save"
    /\ \E create_ok \in BOOLEAN :
          LET got == GetBackend(sm, StartOp(smLog, "get_today_all_data"),
                                create_ok)
          IN /\ sm' = got.sm
             /\ smLog' = [got.log EXCEPT !.delegate = got.sm.backend]
             /\ ret' = [done |-> TRUE, ok |-> TRUE,
                        data |-> backendData[got.sm.backend]]
    /\ call' = [fn |-> "get_today_all_data", data |-> EmptyDay]
    /\ UNCHANGED << saveFrame, backendData, runs >>

NextSave == SaveNewsDataStep \/ GetTodayAllDataStep

SpecSave == InitSave /\ [][NextSave]_vars

\* ------------------------------------------- frequency engine, filtering
\* a title is the set of the words it contains: "k" is the keyword of the
\* groups, "f" a per-call filter word, "g" a global filter word
Words == {"k", "f", "g"}
WordTitles == SUBSET Words
DataSources == SUBSET WordTitles
FilterWordLists == {<< >>, << "f" >>}
GlobalFilterLists == {<< >>, << "g" >>}
FilterGroups ==
    << [name |-> "G", required |-> {"k"}, excluded |-> {}],
       [name |-> "H", required |-> {"k", "f"}, excluded |-> {"g"}] >>

\* the titles that contain none of the filter words
ApplyFilter(titles, word_list) ==
    {t \in titles : \A i \in DOMAIN word_list : word_list[i] \notin t}

\* the titles considered: per-call filter first, then the global filter
Considered(titles, filter_words, global_filters) ==
    ApplyFilter(ApplyFilter(titles, filter_words), global_filters)

\* a title matches a group iff it has one of its required keywords and none
\* of its exclusion keywords
MatchedTitles(titles, group) ==
    {t \in titles : t \cap group.required # {} /\ t \cap group.excluded = {}}

\* ctx.count_frequency: (stats, total_titles)
CountFrequencyFiltered(titles, word_groups, filter_words, global_filters) ==
    LET kept == Considered(titles, filter_words, global_filters)
    IN << [i \in DOMAIN word_groups |->
             [word |-> word_groups[i].name,
              count |-> Cardinality(MatchedTitles(kept, word_groups[i])),
              titles |-> MatchedTitles(kept, word_groups[i])]],
          Cardinality(kept) >>

\* a bug: global_filters left at its default, None
RunAnalysisPipeline_NoGlobal(data_source, word_groups, filter_words, global_filters) ==
    CountFrequencyFiltered(data_source, word_groups, filter_words, << >>)[1]

\* _run_analysis_pipeline: the stats of ctx.count_frequency
RunAnalysisPipeline(data_source, word_groups, filter_words, global_filters) ==
    CountFrequencyFiltered(data_source, word_groups, filter_words,
                           global_filters)[1]

InitFilter ==
    /\ call \in [fn : {"count_frequency"}, data_source : DataSources,
                 filter_words : FilterWordLists,
                 global_filters : GlobalFilterLists]
    /\ ret = NoReturn
    /\ backendData = NoBackendData
    /\ crawled = NothingCrawled
    /\ pc = "filter"
    /\ sm = DefaultManager
    /\ smLog = EmptyLog
    /\ PipelineUntouched

\* the analysis of a data source
FilterStep ==
    /\ pc = "filter"
    /\ ret' = [done |-> TRUE, applied |-> 1,
               stats |-> RunAnalysisPipeline(call.data_source, FilterGroups,
                             call.filter_words, call.global_filters)]
    /\ pc' = "filter_done"
    /\ UNCHANGED << pipelineVarsButRet, sm, smLog >>

\* the analysis, with the same filter word lists, of what the filters left
FilterAgain ==
    /\ pc = "filter_done"
    /\ ret.applied = 1
    /\ ret' = [done |-> TRUE, applied |-> 2, previous |-> ret.stats,
               stats |-> RunAnalysisPipeline(
                             Considered(call.data_source, call.filter_words,
                                        call.global_filters),
                             FilterGroups, call.filter_words,
                             call.global_filters)]
    /\ UNCHANGED << pipelineVarsButRet, sm, smLog, pc >>

NextFilter == FilterStep \/ FilterAgain

SpecFilter == InitFilter /\ [][NextFilter]_vars

\* ------------------------------------------ the notification on its own
\* the configuration keys of the channels
NotificationKeys ==
    {"FEISHU_WEBHOOK_URL", "DINGTALK_WEBHOOK_URL", "WEWORK_WEBHOOK_URL",
     "TELEGRAM_BOT_TOKEN", "TELEGRAM_CHAT_ID", "EMAIL_FROM",
     "EMAIL_PASSWORD", "EMAIL_TO", "NTFY_SERVER_URL", "NTFY_TOPIC",
     "BARK_URL", "SLACK_WEBHOOK_URL"}

\* a bug: any key that is set makes a channel
HasNotificationConfigured_AnyKey(set_keys) == set_keys # {}

\* _has_notification_configured, over the keys whose value is not empty
HasNotificationConfigured(set_keys) ==
    \/ "FEISHU_WEBHOOK_URL" \in set_keys
    \/ "DINGTALK_WEBHOOK_URL" \in set_keys
    \/ "WEWORK_WEBHOOK_URL" \in set_keys
    \/ ("TELEGRAM_BOT_TOKEN" \in set_keys /\ "TELEGRAM_CHAT_ID" \in set_keys)
    \/ /\ "EMAIL_FROM" \in set_keys
       /\ "EMAIL_PASSWORD" \in set_keys
       /\ "EMAIL_TO" \in set_keys
    \/ ("NTFY_SERVER_URL" \in set_keys /\ "NTFY_TOPIC" \in set_keys)
    \/ "BARK_URL" \in set_keys
    \/ "SLACK_WEBHOOK_URL" \in set_keys

\* one call of _send_notification_if_needed for the summary, with the
\* statistics it is given and the channel keys the configuration has
InitNotify ==
    /\ call \in [fn : {"_send_notification_if_needed"},
                 set_keys : SUBSET NotificationKeys]
    /\ cfg \in {c \in Configs :
                  /\ c.REPORT_MODE = "daily"
                  /\ ~c.HTML
                  /\ c.HAS_NOTIFICATION =
                        HasNotificationConfigured(call.set_keys)}
    /\ stats \in {<< >>, << [word |-> "G", count |-> 1] >>}
    /\ newTitles = NoTitles
    /\ pc = "send"
    /\ kind = "summary"
    /\ today = 1 /\ now \in {0, 1}
    /\ store = EmptyBucket
    /\ pushRecord = [d \in Days |-> {}]
    /\ exitStatus = "none"
    /\ runs = 1
    /\ honoured = 0
    /\ results = NoTitles
    /\ saved = FALSE
    /\ summaryHtml = FALSE
    /\ loadFailed = FALSE
    /\ valid = FALSE
    /\ gate = "none"
    /\ dispatchResults = NoResults
    /\ raised = FALSE
    /\ rtSent = 0 /\ sumSent = 0 /\ recorded = 0 /\ cleanups = 0
    /\ ManagerUntouched
    /\ ret = NoReturn /\ backendData = NoBackendData
    /\ crawled = NothingCrawled

NextNotify ==
    SendNotificationIfNeeded \/ DispatchAll \/ RecordPushStep \/ Cleanup

SpecNotify == InitNotify /\ [][NextNotify]_vars

TypeOK ==
    /\ cfg \in Configs \cup CrawlerOffConfigs
    /\ today \in Days /\ now \in Times
    /\ pc \in {"idle", "crawl", "detect", "execute", "send", "dispatch",
               "record", "summary", "cleanup", "gate", "gate_done", "storage",
               "resolve", "resolve_done", "override", "override_done",
               "config", "config_done", "save", "filter", "filter_done",
               "novelty_crawl", "novelty_detect", "novelty_load",
               "novelty_end"}
    /\ kind \in {"none", "realtime", "summary"}
    /\ gate \in {"none", "not_consulted", "admit", "outside_window",
                 "already_pushed"}
    /\ results \in TitleMaps /\ newTitles \in TitleMaps
    /\ dispatchResults \in DispatchOutcomes

\* =================================================================== claims
Mode == cfg.REPORT_MODE
PushWindow == cfg.PUSH_WINDOW
NotificationOn == cfg.ENABLE_NOTIFICATION /\ cfg.HAS_NOTIFICATION
PushedToday == HasPushedToday(pushRecord, today)
InWindow == PushWindow.start <= now /\ now <= PushWindow.end

\* the once-per-day gate is in force: PUSH_WINDOW.ENABLED and ONCE_PER_DAY
OncePerDayGate == PushWindow.enabled /\ PushWindow.once_per_day

\* the new-titles mapping is empty, or every platform's list in it is
NoNewTitle == \A p \in DOMAIN newTitles : newTitles[p] = {}

\* some stat of the stats list counts a match
SomeMatch == \E i \in DOMAIN stats : stats[i].count >= 1

GateDenied == gate \in {"outside_window", "already_pushed"}

\* C1: in incremental mode, a run whose new-titles mapping is empty (or has
\* only empty lists) dispatches no real-time notification, whatever the
\* stats count.
C1_IncrementalNeedsNewTitles ==
    (Mode = "incremental" /\ NoNewTitle) =>
        /\ rtSent = 0
        /\ ~(pc = "dispatch" /\ kind = "realtime")

\* a run in incremental mode with keyword matches, nothing new, and
\* everything else letting a notification through: nothing was dispatched
C1_Witness ==
    /\ Mode = "incremental"
    /\ pc = "summary"
    /\ DOMAIN newTitles # {}
    /\ NoNewTitle
    /\ SomeMatch
    /\ NotificationOn
    /\ ~PushWindow.enabled
    /\ rtSent = 0

C3_PushedTodayDenies ==
    (OncePerDayGate /\ PushedToday) =>
        /\ pc # "dispatch"
        /\ \A t \in Times : PushGate(PushWindow, t, PushedToday) # "admit"

\* inside the time window, and still denied because of the record
C3_Witness ==
    /\ OncePerDayGate
    /\ PushedToday
    /\ InWindow
    /\ kind = "realtime"
    /\ gate = "already_pushed"
    /\ rtSent = 0

\* C4: record_push is called only after a dispatch of the run in which at
\* least one channel reported success: never without a dispatch, never on
\* an empty result map, never when every channel failed.
C4_RecordOnlyAfterSuccess ==
    /\ pc = "record" =>
          /\ rtSent + sumSent = 1
          /\ DOMAIN dispatchResults # {}
          /\ \E c \in DOMAIN dispatchResults : dispatchResults[c] = TRUE
    /\ recorded <= rtSent + sumSent
    /\ PushedToday => honoured >= 1

\* about to record after one channel failed and another succeeded
C4_Witness ==
    /\ pc = "record"
    /\ \E c \in DOMAIN dispatchResults : ~dispatchResults[c]
    /\ \E c \in DOMAIN dispatchResults : dispatchResults[c]

\* C5: with the push window enabled, the dispatcher is reached only inside
\* [start, end] and, with once-per-day, with no push recorded today; with
\* the push window disabled every consulted gate admits.
C5_PushWindowGate ==
    /\ (pc = "dispatch" /\ PushWindow.enabled) =>
          /\ InWindow
          /\ PushWindow.once_per_day => pushRecord[today] = {}
    /\ (~PushWindow.enabled /\ gate \notin {"none", "not_consulted"}) =>
          gate = "admit"

\* admitted on the second day, after a push recorded on the first
C5_Witness ==
    /\ pc = "dispatch"
    /\ OncePerDayGate
    /\ today = 2
    /\ pushRecord[1] # {}

\* C6: a run dispatches at most one real-time and at most one summary
\* notification, and none of the second kind once the real-time one was
\* dispatched: the summary stage then only writes its HTML.
C6_OneNotificationPerRun ==
    /\ rtSent <= 1
    /\ sumSent <= 1
    /\ rtSent = 1 => sumSent = 0
    /\ (rtSent = 1 /\ pc = "cleanup" /\ cfg.HTML /\ ~loadFailed) =>
          summaryHtml

\* a run that dispatched its real-time notification and wrote the summary
C6_Witness ==
    /\ pc = "cleanup"
    /\ rtSent = 1
    /\ sumSent = 0
    /\ summaryHtml

\* this crawl, once saved, against the day's history before it
CrawlHasNewMatch ==
    \E p \in DOMAIN results : \E t \in results[p] :
        /\ t \notin store.prior[p]
        /\ \E i \in DOMAIN WordGroups : t \in WordGroups[i].required

CrawlHasNothingNew ==
    \A p \in DOMAIN results : results[p] \subseteq store.prior[p]

\* the push gate had nothing against a notification of this run
GateOpenForRun ==
    \/ ~PushWindow.enabled
    \/ /\ InWindow
       /\ PushWindow.once_per_day =>
              (pushRecord[today] = {} \/ recorded = 1)

\* C7: in incremental mode with notifications configured and the push gate
\* open, a run whose saved crawl has a new title matching a keyword group
\* dispatches exactly one real-time notification and no summary one; a run
\* whose saved crawl has no new title dispatches nothing and still writes
\* the daily-summary HTML (when HTML is enabled and the day's data loads).
C7_IncrementalTwoRuns ==
    (Mode = "incremental" /\ pc = "cleanup" /\ saved) =>
        /\ (CrawlHasNewMatch /\ NotificationOn /\ GateOpenForRun) =>
              (rtSent = 1 /\ sumSent = 0)
        /\ CrawlHasNothingNew =>
              /\ rtSent = 0
              /\ sumSent = 0
              /\ (cfg.HTML /\ ~loadFailed) => summaryHtml

\* the rerun of the day: the first run pushed title X, the second run
\* crawled X again, sent nothing and wrote the summary HTML
C7_Witness ==
    /\ Mode = "incremental"
    /\ pc = "cleanup"
    /\ runs = 2
    /\ honoured = 1
    /\ saved
    /\ results = [p \in Platforms |-> {"X"}]
    /\ store.prior = [p \in Platforms |-> {"X"}]
    /\ rtSent = 0
    /\ sumSent = 0
    /\ summaryHtml

\* C8: when the push gate denies, nothing is sent and nothing is raised,
\* and the run goes on: the summary stage and then cleanup are what comes
\* next, and the summary HTML is written (when HTML is enabled and the
\* day's data loads).
C8_DenialContinues ==
    GateDenied =>
        /\ rtSent + sumSent = 0
        /\ recorded = 0
        /\ ~raised
        /\ pc \in {"summary", "cleanup"}
        /\ pc = "summary" => ENABLED GenerateSummary
        /\ pc = "cleanup" => ENABLED Cleanup
        /\ (pc = "cleanup" /\ cfg.HTML /\ ~loadFailed) => summaryHtml

\* a real-time notification denied outside the window, the summary written
C8_Witness ==
    /\ gate = "outside_window"
    /\ kind = "realtime"
    /\ pc = "cleanup"
    /\ summaryHtml

\* C9: the content gate is (new title and match) in incremental mode,
\* (match) in current mode, (match or new title) in daily mode.
C9_ContentGate ==
    pc = "gate_done" =>
        /\ Mode = "incremental" => (valid <=> (~NoNewTitle /\ SomeMatch))
        /\ Mode = "current" => (valid <=> SomeMatch)
        /\ Mode = "daily" => (valid <=> (SomeMatch \/ ~NoNewTitle))

\* daily mode, no match, a new title: the gate holds
C9_Witness ==
    /\ pc = "gate_done"
    /\ Mode = "daily"
    /\ ~SomeMatch
    /\ ~NoNewTitle
    /\ valid

\* C10: a daily-mode run never dispatches a real-time notification (only
\* the summary one); real-time notifications come from incremental and
\* current mode only.
C10_DailyNoRealtime ==
    /\ Mode = "daily" => (rtSent = 0 /\ kind # "realtime")
    /\ (rtSent > 0 \/ kind = "realtime") =>
          Mode \in {"incremental", "current"}
    /\ sumSent > 0 => Mode \notin {"incremental", "current"}

\* a daily-mode run that dispatched its summary notification
C10_Witness ==
    /\ Mode = "daily"
    /\ sumSent = 1
    /\ rtSent = 0

\* ---------------------------------------------------------------------- C11
\* the data of this crawl, and the accumulated data of the day as stored
CrawlStats == CountFrequency(results)
DayStats == CountFrequency(ReadTodayTitles(store))

\* C11 as stated: when a notification is dispatched, its statistics are
\* those of this crawl's results in incremental and daily modes, and those
\* of the accumulated data of the day in current mode
C11_StatsWindowAsStated ==
    pc = "dispatch" =>
        /\ Mode \in {"incremental", "daily"} => stats = CrawlStats
        /\ Mode = "current" => stats = DayStats

\* C11, amended: when a notification is dispatched, its statistics are
\* those of this crawl's results in incremental mode only; in current mode
\* and in daily mode (and in a mode handled as daily) they are those of the
\* accumulated data of the day
C11_StatsWindow ==
    pc = "dispatch" =>
        /\ Mode = "incremental" => stats = CrawlStats
        /\ Mode # "incremental" => stats = DayStats

\* a daily notification is dispatched whose statistics are not those of
\* this crawl
C11_Witness ==
    /\ pc = "dispatch"
    /\ Mode = "daily"
    /\ kind = "summary"
    /\ stats = DayStats
    /\ stats # CrawlStats

\* ---------------------------------------------------------------------- C12
\* the first time this run read the day's data back, it got nothing: in
\* current mode that is the read of _execute_mode_strategy (after which no
\* real-time notification is begun), in the other modes the read of the
\* summary stage
FirstReadBackFailed == loadFailed /\ (Mode = "current" => kind = "none")

\* this crawl fetched at least one title
CrawlHasTitles == \E p \in DOMAIN results : results[p] # {}

\* C12: when the day's data cannot be read back after the crawl's snapshot
\* (with titles in it) was saved, the run aborts with an error, in
\* whichever report mode: the exception propagates and the run is at its
\* cleanup, no summary generated
C12_ReadBackFailureAborts ==
    (saved /\ CrawlHasTitles /\ FirstReadBackFailed) =>
        (raised /\ pc = "cleanup" /\ ~summaryHtml /\ sumSent = 0)

\* ---------------------------------------------------------------------- C13
InRun == pc \in {"crawl", "detect", "execute", "send", "dispatch", "record",
                 "summary", "cleanup"}

\* the steps of a run, from the crawl to the finally clause
RunStep ==
    \/ CrawlData
    \/ DetectStep
    \/ ExecuteModeStrategy
    \/ SendNotificationIfNeeded
    \/ DispatchAll
    \/ RecordPushStep
    \/ GenerateSummary
    \/ Cleanup

\* how far the run is: every step of a run moves it forward
RunRank ==
    CASE pc = "crawl" -> 0
      [] pc = "detect" -> 1
      [] pc = "execute" -> 2
      [] pc = "send" /\ kind # "summary" -> 3
      [] pc = "dispatch" /\ kind # "summary" -> 4
      [] pc = "record" /\ kind # "summary" -> 5
      [] pc = "summary" -> 6
      [] pc = "send" /\ kind = "summary" -> 7
      [] pc = "dispatch" /\ kind = "summary" -> 8
      [] pc = "record" /\ kind = "summary" -> 9
      [] pc = "cleanup" -> 10
      [] OTHER -> 11

\* C13: a run that has started always has a next step and every step moves
\* it forward, so it ends; it ends by the cleanup step and by no other;
\* ctx.cleanup() has not been called while the run is at any stage, and has
\* been called exactly once when the run has ended, whether or not an
\* exception was propagating
C13_CleanupOnceLast ==
    /\ [](InRun => (cleanups = 0 /\ ENABLED RunStep))
    /\ []((pc = "idle" /\ runs > 0) => cleanups = 1)
    /\ [][InRun => /\ RunRank' > RunRank
                   /\ pc' = "idle" => (pc = "cleanup" /\ cleanups' = 1)]_vars

\* a run that aborted on the consistency error has ended, cleaned up once
C13_Witness ==
    /\ pc = "idle"
    /\ runs > 0
    /\ exitStatus = "error"
    /\ cleanups = 1

\* ---------------------------------------------------------------------- C14
\* C14: a process ends with an error status if and only if the consistency
\* error was raised in it; every other way of ending is a normal end
C14_ErrorStatusIffConsistencyError ==
    [][(exitStatus' # exitStatus /\ exitStatus' # "none") =>
          (exitStatus' = "error" <=> (pc = "cleanup" /\ raised))]_vars

\* ---------------------------------------------------------------------- C15
DayHasData == DOMAIN ReadTodayTitles(store) # {}

\* C15: a save_news_data that returned False is not escalated: where the
\* crawl fetched titles and the save failed, an exception propagates only
\* if the day's stored data was there and could not be read, never because
\* the snapshot is missing from the store
C15_SaveFailureNotEscalated ==
    (raised /\ ~saved /\ CrawlHasTitles) => DayHasData

\* ---------------------------------------------------------------------- C16
\* C16: a delegated operation always goes to a backend, the active one;
\* once get_backend has failed to construct the remote backend the active
\* backend is Local and every delegated operation goes to Local; the active
\* backend, once there, is never replaced
C16_FallbackToLocal ==
    /\ [](smLog.op = "delegated" =>
            (smLog.delegate \in {"local", "remote"}
             /\ smLog.delegate = sm.backend))
    /\ [](smLog.fellBack =>
            (sm.backend = "local"
             /\ (smLog.op = "delegated" => smLog.delegate = "local")))
    /\ [][sm.backend # "none" => sm'.backend = sm.backend]_vars

\* an explicitly remote manager whose remote backend could not be
\* constructed has served an operation from Local
C16_Witness ==
    /\ sm.backend_type = "remote"
    /\ smLog.fellBack
    /\ smLog.op = "delegated"
    /\ smLog.delegate = "local"

\* ---------------------------------------------------------------------- C17
\* a credential is present if the configuration or the environment has it
AllFourPresent ==
    \A key \in CredKeys :
        sm.remote_config[key] # NoValue \/ sm.environ[key] # NoValue

\* C17: the resolved type is the configured one when that is local or
\* remote; for auto it is remote exactly when the process runs in the CI
\* environment and all four credentials are present, and local otherwise
C17_ResolvedType ==
    pc = "resolve_done" =>
        /\ sm.backend_type \in {"local", "remote"} =>
              smLog.resolved = sm.backend_type
        /\ sm.backend_type = "auto" =>
              /\ smLog.resolved \in {"local", "remote"}
              /\ smLog.resolved = "remote" <=>
                    (sm.github_actions = "true" /\ AllFourPresent)

\* auto resolves to remote with one credential only in the configuration
\* and another only in the environment
C17_Witness ==
    /\ pc = "resolve_done"
    /\ sm.backend_type = "auto"
    /\ smLog.resolved = "remote"
    /\ sm.remote_config["bucket_name"] = NoValue
    /\ sm.environ["endpoint_url"] = NoValue

\* ---------------------------------------------------------------------- C18
\* C18: no backend is constructed before the first operation, and over any
\* sequence of operations no second backend of a kind is constructed
C18_ConstructedAtMostOnce ==
    /\ smLog.op = "none" => (smLog.nLocal = 0 /\ smLog.nRemote = 0)
    /\ smLog.nLocal <= 1
    /\ smLog.nRemote <= 1

\* ---------------------------------------------------------------------- C19
\* C19: with both retentions positive and remote storage configured (and
\* its backend there), cleanup_old_data makes two backend calls: one on the
\* Local store with local_retention_days, one on the Remote store with
\* remote_retention_days; it returns the sum of the two counts
C19_BothStoresCleaned ==
    (/\ smLog.op = "cleanup_old_data"
     /\ sm.local_retention_days > 0
     /\ sm.remote_retention_days > 0
     /\ HasRemoteConfig(sm)
     /\ sm.remote_backend = "remote") =>
        /\ Len(smLog.calls) = 2
        /\ smLog.calls[1].store = "local"
        /\ smLog.calls[1].days = sm.local_retention_days
        /\ smLog.calls[2].store = "remote"
        /\ smLog.calls[2].days = sm.remote_retention_days
        /\ smLog.ret = smLog.calls[1].count + smLog.calls[2].count

\* ---------------------------------------------------------------------- C20
\* the retention setting of a store
RetentionOf(data_store) ==
    IF data_store = "local"
    THEN sm.local_retention_days ELSE sm.remote_retention_days

\* C20: cleanup_old_data calls the cleanup of a store only when that
\* store's retention is positive; with both retentions 0 it returns 0,
\* calls no backend and constructs none
C20_ZeroMeansNeverDelete ==
    smLog.op = "cleanup_old_data" =>
        /\ \A i \in DOMAIN smLog.calls :
              RetentionOf(smLog.calls[i].store) > 0
        /\ (sm.local_retention_days = 0 /\ sm.remote_retention_days = 0) =>
              (smLog.ret = 0 /\ smLog.calls = << >> /\ smLog.built = << >>)

\* ---------------------------------------------------------------------- C21
\* pull_from_remote has nothing to pull with: pulling is disabled, there are
\* no days to pull, or the credentials are not all there
PullNotPossible ==
    \/ ~sm.pull_enabled
    \/ sm.pull_days <= 0
    \/ ~AllFourPresent

\* C21: a pull_from_remote that has nothing to pull with returns 0, runs no
\* constructor, calls no backend and leaves every field of the manager as it
\* was; a pull_from_remote that could not construct the remote backend
\* returns 0 too and calls no backend
C21_PullIsNoop ==
    /\ []((smLog.op = "pull_from_remote" /\ PullNotPossible) =>
            (smLog.ret = 0 /\ smLog.built = << >> /\ smLog.calls = << >>))
    /\ []((smLog.op = "pull_from_remote" /\ sm.remote_backend = "none") =>
            (smLog.ret = 0 /\ smLog.calls = << >>))
    /\ [][(smLog'.op = "pull_from_remote" /\ PullNotPossible) =>
            (sm' = sm /\ smLog'.nLocal = smLog.nLocal
                      /\ smLog'.nRemote = smLog.nRemote)]_vars

\* pulling is enabled and the credentials are there, but the number of days
\* is negative: the pull did nothing, after an operation that did something
C21_Witness ==
    /\ smLog.op = "pull_from_remote"
    /\ sm.pull_enabled
    /\ sm.pull_days < 0
    /\ AllFourPresent
    /\ sm.backend # "none"
    /\ sm.remote_backend = "none"
    /\ smLog.ret = 0

\* ---------------------------------------------------------------------- C22
\* some character of STORAGE_RETENTION_DAYS is not a blank
EnvRetentionSet == \E i \in DOMAIN call.env_value : call.env_value[i] # " "

\* the effective value of each credential is the configuration's where the
\* configuration has one, else the environment's
CredentialsConfigFirst ==
    \A key \in CredKeys :
        ret.credentials[key] =
            IF sm.remote_config[key] # NoValue
            THEN sm.remote_config[key] ELSE sm.environ[key]

\* C22 as stated: for the retention days and for each credential the
\* effective value is the configuration's whenever the configuration has
\* one, the environment's only when it has none
C22_ConfigFirstAsStated ==
    (pc = "override_done" /\ ~ret.retention.raised) =>
        /\ CredentialsConfigFirst
        /\ call.config_days.present =>
              ret.retention.value = call.config_days.value

\* C22, amended: each credential is the configuration's value where there
\* is one and the environment's otherwise; the retention days are those of
\* STORAGE_RETENTION_DAYS whenever that variable holds more than blanks
\* (and int() accepts it), and the configuration's only when it does not
C22_Overrides ==
    (pc = "override_done" /\ ~ret.retention.raised) =>
        /\ CredentialsConfigFirst
        /\ EnvRetentionSet =>
              (ret.retention.present
               /\ ret.retention.value = IntOf(call.env_value).value)
        /\ ~EnvRetentionSet => ret.retention = 
              [raised |-> FALSE, present |-> call.config_days.present,
               value |-> call.config_days.value]

\* the configuration says 30 days, the environment " 7": 7 days it is;
\* one credential comes from the configuration though the environment has
\* it too, another from the environment
C22_Witness ==
    /\ pc = "override_done"
    /\ call.config_days = [present |-> TRUE, value |-> 30]
    /\ call.env_value = << " ", "7" >>
    /\ ret.retention.value = 7
    /\ sm.remote_config["bucket_name"] = "c"
    /\ sm.environ["bucket_name"] = "e"
    /\ ret.credentials["bucket_name"] = "c"
    /\ ret.credentials["endpoint_url"] = "e"

\* ---------------------------------------------------------------------- C23
ParseReturned == pc = "config_done" /\ call.fn = "parse_multi_account_config"

\* the elements of the config string between the separators
Elements == Split(call.config_value, Separator)

\* C23 as stated: the result is the separator-delimited elements, in order
\* and one per position, empty elements kept; the empty list for the empty
\* string and for a string whose elements are all empty
C23_ElementsAsStated ==
    ParseReturned =>
        ret.result =
            IF call.config_value = << >>
               \/ \A i \in DOMAIN Elements : Elements[i] = << >>
            THEN << >> ELSE Elements

\* C23, amended: the result is the separator-delimited elements, each
\* stripped of the whitespace around it, in order and one per position,
\* elements that are empty once stripped kept as placeholders; the empty
\* list for the empty string and when every element is empty once stripped
C23_StrippedElements ==
    ParseReturned =>
        IF call.config_value = << >>
           \/ \A i \in DOMAIN Elements : Strip(Elements[i]) = << >>
        THEN ret.result = << >>
        ELSE /\ Len(ret.result) = Len(Elements)
             /\ \A i \in DOMAIN Elements : ret.result[i] = Strip(Elements[i])

\* "a;;" gives three positions, the last two empty placeholders
C23_Witness ==
    /\ ParseReturned
    /\ call.config_value = << "a", ";", ";" >>
    /\ ret.result = << << "a" >>, << >>, << >> >>

\* ---------------------------------------------------------------------- C24
ValidateReturned == pc = "config_done" /\ call.fn = "validate_paired_configs"

NonEmptyKeys == {k \in PairedKeys : call.configs[k] # << >>}

LengthsDiffer ==
    \E k1, k2 \in NonEmptyKeys : Len(call.configs[k1]) # Len(call.configs[k2])

RequiredKeyEmpty == \E k \in call.required_keys : call.configs[k] = << >>

\* C24 as stated: acceptance with n > 0 only when all paired lists have
\* length n; non-empty lists of differing lengths give (False, 0); an empty
\* list under a required key gives (True, 0)
C24_PairedAsStated ==
    ValidateReturned =>
        /\ (ret.result[1] /\ ret.result[2] > 0) =>
              \A k \in PairedKeys : Len(call.configs[k]) = ret.result[2]
        /\ LengthsDiffer => ret.result = << FALSE, 0 >>
        /\ RequiredKeyEmpty => ret.result = << TRUE, 0 >>

\* C24, amended: acceptance with n > 0 only when every non-empty list has
\* length n and no required key's list is empty; an empty list under a
\* required key gives (True, 0) whatever the other lists are; otherwise
\* non-empty lists of differing lengths give (False, 0)
C24_PairedNonEmpty ==
    ValidateReturned =>
        /\ (ret.result[1] /\ ret.result[2] > 0) =>
              /\ \A k \in NonEmptyKeys : Len(call.configs[k]) = ret.result[2]
              /\ ~RequiredKeyEmpty
        /\ RequiredKeyEmpty => ret.result = << TRUE, 0 >>
        /\ (LengthsDiffer /\ ~RequiredKeyEmpty) => ret.result = << FALSE, 0 >>
        /\ (~LengthsDiffer /\ ~RequiredKeyEmpty /\ NonEmptyKeys # {}) =>
              (ret.result[1] /\ ret.result[2] > 0)

\* two tokens and one chat id, both required: rejected
C24_Witness ==
    /\ ValidateReturned
    /\ call.required_keys = {"token", "chat_id"}
    /\ Len(call.configs["token"]) = 2
    /\ Len(call.configs["chat_id"]) = 1
    /\ ret.result = << FALSE, 0 >>

\* ---------------------------------------------------------------------- C25
LimitReturned == pc = "config_done" /\ call.fn = "limit_accounts"

NothingAnalysed ==
    /\ stats = << >>
    /\ gate = "none"
    /\ rtSent + sumSent = 0
    /\ recorded = 0

\* C26: in every run the snapshot is persisted by the crawl step, before
\* the detection of new titles; the detection comes before any frequency
\* statistics; a dispatch happens only once the push gate has admitted it;
\* a push is recorded only right after the dispatch it records; the cleanup
\* is the last step, after all of them
C26_StageOrder ==
    /\ [](pc = "crawl" => (NothingAnalysed /\ newTitles = NoTitles))
    /\ [](pc \in {"detect", "execute"} => NothingAnalysed)
    /\ [](pc \in {"dispatch", "record"} => gate = "admit")
    /\ [](recorded <= rtSent + sumSent)
    /\ [](InRun => cleanups = 0)
    /\ [][(InRun /\ pc # "cleanup") =>
            /\ store' # store => (pc = "crawl" /\ pc' = "detect")
            /\ pc = "crawl" => pc' = "detect"
            /\ newTitles' # newTitles => pc \in {"detect", "execute", "summary"}
            /\ pc' = "execute" => pc = "detect"
            /\ stats' # stats => pc \in {"execute", "summary"}
            /\ pc' = "dispatch" => (pc = "send" /\ gate' = "admit")
            /\ pc' = "record" => pc = "dispatch"
            /\ recorded' # recorded =>
                  (pc = "record" /\ recorded' <= rtSent + sumSent)
            /\ cleanups' = cleanups]_vars
    /\ [][InRun => /\ RunRank' > RunRank
                   /\ pc' = "idle" => pc = "cleanup"]_vars

\* a run that went through every stage: snapshot saved, new titles found,
\* statistics computed, gate passed, dispatched, recorded, cleanup next
C26_Witness ==
    /\ pc = "cleanup"
    /\ saved
    /\ newTitles # NoTitles
    /\ stats # << >>
    /\ gate = "admit"
    /\ rtSent + sumSent = 1
    /\ recorded = 1
    /\ cleanups = 0

\* ---------------------------------------------------------------------- C27
\* the titles of this run's crawl on a platform
CrawlTitles(p) == IF p \in DOMAIN results THEN results[p] ELSE {}

\* the titles the last detection call of this run reported as new
ReportedNew(p) == IF p \in DOMAIN newTitles THEN newTitles[p] ELSE {}

\* a detection call of this run has reported
DetectionDone == pc \in {"novelty_load", "novelty_end"}

\* C27: once a detection call of crawl N's run has reported, every title of
\* crawl N that no earlier crawl of the day had is among the new titles,
\* after the first call and after the second; and no title that an earlier
\* crawl of the day had is among them
C27_NewExactlyOnce ==
    DetectionDone =>
        \A p \in Platforms :
            /\ (CrawlTitles(p) \ crawled[p]) \subseteq ReportedNew(p)
            /\ ReportedNew(p) \cap crawled[p] = {}

\* ---------------------------------------------------------------------- C28
\* what get_today_all_data returns once the manager has its backend
TodayAllData ==
    IF sm.backend = "none" THEN EmptyDay ELSE backendData[sm.backend]

\* C28: get_today_all_data returns the accumulated data of the active
\* backend; a NewsData that was saved has all its titles in it; and from
\* one step to the next no title leaves it and no count in it decreases,
\* so after d1 then d2 it has every title of both
C28_AccumulatedData ==
    /\ [](call.fn = "get_today_all_data" => ret.data = TodayAllData)
    /\ []((call.fn = "save_news_data" /\ ret.ok) =>
             \A t \in DOMAIN call.data : CountIn(TodayAllData, t) >= 1)
    /\ [][pc = "save" =>
            \A t \in DOMAIN TodayAllData :
                CountIn(TodayAllData', t) >= TodayAllData[t]]_vars

\* X saved twice and Y once, read back with counts 2 and 1
C28_Witness ==
    /\ pc = "save"
    /\ runs = 2
    /\ call.fn = "get_today_all_data"
    /\ ret.data = [t \in {"X", "Y"} |-> IF t = "X" THEN 2 ELSE 1]
    /\ smLog.fellBack

\* ---------------------------------------------------------------------- C29
\* the title contains a word of the per-call or of the global filter list
FilteredOut(title) ==
    \/ \E i \in DOMAIN call.filter_words : call.filter_words[i] \in title
    \/ \E i \in DOMAIN call.global_filters : call.global_filters[i] \in title

\* C29: the Stats of what the filter word lists left, analysed with the same
\* lists again, are the Stats of the first analysis; and no title that
\* contains a per-call or a global filter word is in the matched list of
\* any keyword group
C29_FilterIdempotent ==
    pc = "filter_done" =>
        /\ ret.applied = 2 => ret.stats = ret.previous
        /\ \A t \in call.data_source :
              FilteredOut(t) =>
                  \A i \in DOMAIN ret.stats : t \notin ret.stats[i].titles

\* both lists at work: one title dropped by the per-call word, one by the
\* global word, one kept and matched, filtered twice
C29_Witness ==
    /\ pc = "filter_done"
    /\ ret.applied = 2
    /\ call.filter_words = << "f" >>
    /\ call.global_filters = << "g" >>
    /\ call.data_source = {{"k"}, {"k", "f"}, {"k", "g"}}
    /\ ret.stats[1].titles = {{"k"}}

\* ---------------------------------------------------------------------- C30
\* the dispatch of this step brought no success: every channel of the
\* result map reported failure
DispatchFailed == pc = "dispatch" /\ pc' # "dispatch" /\ honoured' = honoured

\* C30: a dispatch in which no channel succeeded raises nothing and records
\* no push, and the run goes on with the stage that follows the
\* notification; no run raises once it has dispatched, so it goes on to its
\* cleanup
C30_SendFailureNotEscalated ==
    /\ [][DispatchFailed =>
            /\ ~raised'
            /\ pc' = AfterSend(kind)
            /\ recorded' = recorded
            /\ pushRecord' = pushRecord]_vars
    /\ [](raised => rtSent + sumSent = 0)
    /\ []((rtSent + sumSent >= 1 /\ honoured = 0) =>
             (recorded = 0 /\ pushRecord[today] = {} /\ pc # "record"))

\* the real-time dispatch failed on every channel with the once-per-day
\* gate in force: nothing recorded, nothing raised, the summary stage next
C30_Witness ==
    /\ pc = "summary"
    /\ OncePerDayGate
    /\ rtSent = 1
    /\ honoured = 0
    /\ recorded = 0
    /\ pushRecord[today] = {}
    /\ ~raised

\* ---------------------------------------------------------------------- C31
\* C31: with ENABLE_CRAWLER false the run exits after the configuration
\* check: it has no crawl results, no snapshot is saved, the day-bucket
\* stays as it was, and nothing is dispatched
C31_DisabledCrawlerExits ==
    ~cfg.ENABLE_CRAWLER =>
        /\ pc \in {"idle", "crawl"}
        /\ ~CrawlHasTitles
        /\ ~saved
        /\ store = EmptyBucket
        /\ rtSent + sumSent = 0

\* ---------------------------------------------------------------------- C32
\* the channels by the keys each one needs
ChannelKeySets ==
    {{"FEISHU_WEBHOOK_URL"}, {"DINGTALK_WEBHOOK_URL"},
     {"WEWORK_WEBHOOK_URL"}, {"TELEGRAM_BOT_TOKEN", "TELEGRAM_CHAT_ID"},
     {"EMAIL_FROM", "EMAIL_PASSWORD", "EMAIL_TO"},
     {"NTFY_SERVER_URL", "NTFY_TOPIC"}, {"BARK_URL"},
     {"SLACK_WEBHOOK_URL"}}

\* some channel has all of its keys set
ChannelConfigured == \E ch \in ChannelKeySets : ch \subseteq call.set_keys

\* notifications enabled, a channel configured, the content gate holds
SendAllowed ==
    /\ cfg.ENABLE_NOTIFICATION
    /\ ChannelConfigured
    /\ HasValidContent(cfg.REPORT_MODE, stats, newTitles)

\* C32: the dispatcher is reached, and a push recorded, only when
\* notifications are enabled, some channel has all of its keys set and the
\* content gate holds; when one of the three fails the call returns with
\* the push gate not consulted, nothing sent and nothing recorded
C32_DispatchPreconditions ==
    /\ [](pc \in {"dispatch", "record"} => SendAllowed)
    /\ [][(pc = "send" /\ ~SendAllowed) =>
            /\ gate' = "not_consulted"
            /\ pc' = AfterSend(kind)
            /\ UNCHANGED << rtSent, sumSent, recorded, pushRecord,
                            honoured >>]_vars
    /\ []((pc = "cleanup" /\ ~SendAllowed) =>
             /\ gate = "not_consulted"
             /\ rtSent + sumSent = 0
             /\ recorded = 0
             /\ pushRecord[today] = {})

\* the Telegram token without its chat id, notifications enabled and
\* matching content: the call has returned with nothing sent
C32_Witness ==
    /\ pc = "cleanup"
    /\ call.set_keys = {"TELEGRAM_BOT_TOKEN", "EMAIL_FROM", "EMAIL_TO"}
    /\ cfg.ENABLE_NOTIFICATION
    /\ valid
    /\ gate = "not_consulted"
    /\ sumSent = 0
    /\ recorded = 0

\* ---------------------------------------------------------------------- C33
\* REPORT_MODE is none of the three modes
UnknownMode == Mode \notin {"incremental", "current", "daily"}

\* C33: the configuration, and the report mode in it, never changes; a run
\* whose report mode is none of the three takes the daily strategy: its
\* analysis is that of this crawl and is followed by the summary stage
\* with no real-time notification and no consistency error, the summary
\* stage notifies, a push is recorded as "Daily Summary", and the content
\* gate is the daily one, matched news or new titles
C33_UnknownModeIsDaily ==
    /\ [][cfg' = cfg]_vars
    /\ [](UnknownMode =>
             /\ GetModeStrategy(Mode) = MODE_STRATEGIES["daily"]
             /\ rtSent = 0
             /\ kind # "realtime")
    /\ [][UnknownMode =>
            /\ pc = "execute" =>
                  /\ pc' = "summary"
                  /\ kind' = "none"
                  /\ ~raised'
                  /\ stats' = CountFrequency(results)
            /\ pc = "send" =>
                  valid' = (HasMatchedNews(stats) \/ HasNewTitles(newTitles))
            /\ (pc = "summary" /\ pc' = "send") => kind' = "summary"
            /\ pc = "record" =>
                  pushRecord' = RecordPush(pushRecord, today,
                                           "Daily Summary")]_vars

\* a run in mode "weekly" whose summary notification, admitted on new
\* titles alone, was dispatched and recorded as the daily summary
C33_Witness ==
    /\ Mode = "weekly"
    /\ pc = "cleanup"
    /\ ~SomeMatch
    /\ valid
    /\ sumSent = 1
    /\ rtSent = 0
    /\ pushRecord[today] = {"Daily Summary"}


====
